---------------------------- MODULE Spec2Model ----------------------------
(***************************************************************************)
(* Model of the Synthra blog API (src/app.py): a Flask service that keeps  *)
(* the blog posts as one JSON array in blog_posts.json, mirrors each post  *)
(* to posts/<id>.json, and serves list / get / create / delete / webhook   *)
(* requests.                                                               *)
(*                                                                         *)
(* Representation.  A Python str is a sequence of one-character strings,   *)
(* so that slicing (excerpt[:200], str(uuid4())[:8]) and JSON parsing are  *)
(* computed.  A JSON value is a tagged record [t, v]; a dict is a function *)
(* from key names to JSON values.  A raised exception is a result record   *)
(* whose exc field names the exception class.                              *)
(***************************************************************************)
EXTENDS Integers, Sequences, FiniteSets, TLC

VARIABLES
  posts_file,  \* blog_posts.json
  backups,     \* the ids with a posts/<id>.json
  clock,       \* datetime.now()
  req,         \* the request handled last
  io,          \* what its file accesses did
  resp,        \* the response it was given
  inflight     \* the requests being handled at the same time, step by step

vars == <<posts_file, backups, clock, req, io, resp, inflight>>

---------------------------------------------------------------------------
(* Bounds of the model *)

\* Creations are accepted while the stored collection holds fewer posts.
MaxPosts == 2
\* The clock stops advancing at this tick.
MaxClock == 1
\* Clock ticks per calendar day (the date string is day-granular).
TicksPerDay == 2
\* Length of the long excerpt used to exercise the 200-character slice.
LongLen == 201

---------------------------------------------------------------------------
(* JSON values *)

JStr(s) == [t |-> "str", v |-> s]
JNum(n) == [t |-> "num", v |-> n]
JBool(b) == [t |-> "bool", v |-> b]
JNull == [t |-> "null", v |-> 0]
JList(l) == [t |-> "list", v |-> l]
JObj(d) == [t |-> "obj", v |-> d]

EmptyDict == <<>>

\* Results of Python expressions: a value, or a raised exception.
Ok(x) == [exc |-> "", val |-> x]
Raise(e) == [exc |-> e, val |-> JNull]

\* r, then F of its value unless r raised.
Then(r, F(_)) == IF r.exc # "" THEN Raise(r.exc) ELSE F(r.val)

Min(a, b) == IF a <= b THEN a ELSE b

\* Text of the dict keys the program names.
KeyText(k) ==
  CASE k = "title" -> <<"t", "i", "t", "l", "e">>
    [] k = "excerpt" -> <<"e", "x", "c", "e", "r", "p", "t">>
    [] k = "content" -> <<"c", "o", "n", "t", "e", "n", "t">>
    [] k = "author" -> <<"a", "u", "t", "h", "o", "r">>
    [] k = "readTime" -> <<"r", "e", "a", "d", "T", "i", "m", "e">>
    [] k = "category" -> <<"c", "a", "t", "e", "g", "o", "r", "y">>
    [] k = "tags" -> <<"t", "a", "g", "s">>
    [] k = "telegramSummary" ->
         <<"t", "e", "l", "e", "g", "r", "a", "m", "S", "u", "m", "m", "a", "r", "y">>
    [] k = "choices" -> <<"c", "h", "o", "i", "c", "e", "s">>
    [] k = "message" -> <<"m", "e", "s", "s", "a", "g", "e">>
    [] OTHER -> <<"?">>

KnownKeys ==
  {"title", "excerpt", "content", "author", "readTime", "category", "tags",
   "telegramSummary", "choices", "message"}

\* The dict key a parsed member name stands for (names the program never
\* looks up are kept under one key).
KeyName(s) ==
  IF \E k \in KnownKeys : KeyText(k) = s
    THEN CHOOSE k \in KnownKeys : KeyText(k) = s
    ELSE "?"

---------------------------------------------------------------------------
(* Python operations on JSON values *)

\* key in x
py_in(key, x) ==
  CASE x.t = "obj" -> Ok(key \in DOMAIN x.v)
    [] x.t = "list" -> Ok(\E i \in 1..Len(x.v) : x.v[i] = JStr(KeyText(key)))
    [] x.t = "str" ->
         Ok(\E i \in 1..Len(x.v) :
              /\ i + Len(KeyText(key)) - 1 <= Len(x.v)
              /\ SubSeq(x.v, i, i + Len(KeyText(key)) - 1) = KeyText(key))
    [] OTHER -> Raise("TypeError")

\* len(x)
py_len(x) ==
  CASE x.t \in {"list", "str"} -> Ok(Len(x.v))
    [] x.t = "obj" -> Ok(Cardinality(DOMAIN x.v))
    [] OTHER -> Raise("TypeError")

\* x[0]
py_index0(x) ==
  CASE x.t = "list" -> IF Len(x.v) > 0 THEN Ok(x.v[1]) ELSE Raise("IndexError")
    [] x.t = "str" ->
         IF Len(x.v) > 0 THEN Ok(JStr(<<x.v[1]>>)) ELSE Raise("IndexError")
    [] x.t = "obj" -> Raise("KeyError")
    [] OTHER -> Raise("TypeError")

\* x[key], key a str
py_getitem(x, key) ==
  CASE x.t = "obj" -> IF key \in DOMAIN x.v THEN Ok(x.v[key]) ELSE Raise("KeyError")
    [] OTHER -> Raise("TypeError")

\* x.get(key, default), default already evaluated
py_get(x, key, default) ==
  CASE x.t = "obj" -> Ok(IF key \in DOMAIN x.v THEN x.v[key] ELSE default)
    [] OTHER -> Raise("AttributeError")

\* x[:n]
py_slice(x, n) ==
  CASE x.t = "str" -> Ok(JStr(SubSeq(x.v, 1, Min(n, Len(x.v)))))
    [] x.t = "list" -> Ok(JList(SubSeq(x.v, 1, Min(n, Len(x.v)))))
    [] OTHER -> Raise("TypeError")

---------------------------------------------------------------------------
(* json.loads: a recursive-descent parser for JSON text.  Numbers are     *)
(* the non-negative integers; string escapes are \" \\ and \/.            *)

Whitespace == {" ", "\t", "\n", "\r"}
Digits == <<"0", "1", "2", "3", "4", "5", "6", "7", "8", "9">>
IsDigit(c) == \E d \in 1..10 : Digits[d] = c
DigitVal(c) == (CHOOSE d \in 1..10 : Digits[d] = c) - 1

PFail == [ok |-> FALSE, val |-> JNull, next |-> 0]
POk(x, n) == [ok |-> TRUE, val |-> x, next |-> n]

RECURSIVE SkipWs(_, _)
SkipWs(s, i) ==
  IF i <= Len(s) /\ s[i] \in Whitespace THEN SkipWs(s, i + 1) ELSE i

\* The characters of a string literal whose opening quote is before i.
RECURSIVE ScanString(_, _, _)
ScanString(s, i, acc) ==
  IF i > Len(s) THEN PFail
  ELSE IF s[i] = "\"" THEN POk(acc, i + 1)
  ELSE IF s[i] = "\\"
    THEN IF i + 1 <= Len(s) /\ s[i + 1] \in {"\"", "\\", "/"}
           THEN ScanString(s, i + 2, Append(acc, s[i + 1]))
           ELSE PFail
  ELSE ScanString(s, i + 1, Append(acc, s[i]))

RECURSIVE ScanDigits(_, _, _)
ScanDigits(s, i, acc) ==
  IF i <= Len(s) /\ IsDigit(s[i])
    THEN ScanDigits(s, i + 1, 10 * acc + DigitVal(s[i]))
    ELSE POk(acc, i)

HasWord(s, i, w) ==
  i + Len(w) - 1 <= Len(s) /\ SubSeq(s, i, i + Len(w) - 1) = w

\* One recursive-descent step.  what = "value": the JSON value at i;
\* "pairs": the rest of an object, i at a member name, acc its members so
\* far; "items": the rest of an array, i at an element, acc its elements.
RECURSIVE Parse(_, _, _, _)
Parse(what, s, i, acc) ==
  IF i > Len(s) THEN PFail
  ELSE IF what = "pairs" THEN
    IF s[i] # "\"" THEN PFail
    ELSE LET k == ScanString(s, i + 1, <<>>) IN
      IF ~k.ok THEN PFail
      ELSE LET c == SkipWs(s, k.next) IN
        IF c > Len(s) \/ s[c] # ":" THEN PFail
        ELSE LET x == Parse("value", s, SkipWs(s, c + 1), <<>>) IN
          IF ~x.ok THEN PFail
          ELSE LET m == SkipWs(s, x.next)
                   d == (KeyName(k.val) :> x.val) @@ acc
               IN IF m > Len(s) THEN PFail
                  ELSE IF s[m] = "," THEN Parse("pairs", s, SkipWs(s, m + 1), d)
                  ELSE IF s[m] = "}" THEN POk(JObj(d), m + 1)
                  ELSE PFail
  ELSE IF what = "items" THEN
    LET x == Parse("value", s, i, <<>>) IN
      IF ~x.ok THEN PFail
      ELSE LET m == SkipWs(s, x.next)
               l == Append(acc, x.val)
           IN IF m > Len(s) THEN PFail
              ELSE IF s[m] = "," THEN Parse("items", s, SkipWs(s, m + 1), l)
              ELSE IF s[m] = "]" THEN POk(JList(l), m + 1)
              ELSE PFail
  ELSE IF s[i] = "\"" THEN
    LET r == ScanString(s, i + 1, <<>>) IN
      IF r.ok THEN POk(JStr(r.val), r.next) ELSE PFail
  ELSE IF IsDigit(s[i]) THEN
    IF s[i] = "0" /\ i + 1 <= Len(s) /\ IsDigit(s[i + 1]) THEN PFail
    ELSE LET r == ScanDigits(s, i, 0) IN POk(JNum(r.val), r.next)
  ELSE IF s[i] = "{" THEN
    LET j == SkipWs(s, i + 1) IN
      IF j <= Len(s) /\ s[j] = "}" THEN POk(JObj(EmptyDict), j + 1)
      ELSE Parse("pairs", s, j, EmptyDict)
  ELSE IF s[i] = "[" THEN
    LET j == SkipWs(s, i + 1) IN
      IF j <= Len(s) /\ s[j] = "]" THEN POk(JList(<<>>), j + 1)
      ELSE Parse("items", s, j, <<>>)
  ELSE IF HasWord(s, i, <<"n", "u", "l", "l">>) THEN POk(JNull, i + 4)
  ELSE IF HasWord(s, i, <<"t", "r", "u", "e">>) THEN POk(JBool(TRUE), i + 4)
  ELSE IF HasWord(s, i, <<"f", "a", "l", "s", "e">>) THEN POk(JBool(FALSE), i + 5)
  ELSE PFail

\* json.loads(x): TypeError unless x is a str; JSONDecodeError unless the
\* whole text is one JSON value.
json_loads(x) ==
  IF x.t # "str" THEN Raise("TypeError")
  ELSE LET r == Parse("value", x.v, SkipWs(x.v, 1), <<>>) IN
    IF r.ok /\ SkipWs(x.v, r.next) = Len(x.v) + 1
      THEN Ok(r.val)
      ELSE Raise("JSONDecodeError")

---------------------------------------------------------------------------
(* Texts the program names *)

AUTHOR == <<"C", "a", "m", "i", "l", "a", " ", "G", "o", "u", "l", "a", "r", "t">>
READ_TIME == <<"5", " ", "m", "i", "n">>
CATEGORY == <<"I", "A">>
TAGS ==
  <<JStr(<<"I", "A">>),
    JStr(<<"A", "u", "t", "o", "m", "a", "ç", "ã", "o">>),
    JStr(<<"S", "y", "n", "t", "h", "r", "a">>)>>
WEBHOOK_TITLE == <<"N", "o", "v", "o", " ", "A", "r", "t", "i", "g", "o">>
WEBHOOK_EXCERPT ==
  <<"A", "r", "t", "i", "g", "o", " ", "g", "e", "r", "a", "d", "o", " ",
    "a", "u", "t", "o", "m", "a", "t", "i", "c", "a", "m", "e", "n", "t", "e", ".">>
FALLBACK_TITLE ==
  <<"N", "o", "v", "o", " ", "A", "r", "t", "i", "g", "o", " ", "d", "e", " ", "I", "A">>
FALLBACK_EXCERPT ==
  <<"A", "r", "t", "i", "g", "o", " ", "g", "e", "r", "a", "d", "o", " ",
    "a", "u", "t", "o", "m", "a", "t", "i", "c", "a", "m", "e", "n", "t", "e", " ",
    "p", "e", "l", "a", " ", "I", "A", ".">>

\* excerpt[:200]
SummaryLen == 200
\* str(uuid.uuid4())[:8]
IdLen == 8

required_fields == <<"title", "content", "excerpt">>

PostFields ==
  {"id", "title", "excerpt", "content", "author", "date", "readTime",
   "category", "tags", "telegramSummary", "created_at"}

---------------------------------------------------------------------------
(* Time and identifiers *)

RECURSIVE Decimal(_)
Decimal(n) ==
  IF n < 10 THEN <<Digits[n + 1]>>
  ELSE Append(Decimal(n \div 10), Digits[(n % 10) + 1])

\* datetime.now().strftime('%d de %B, %Y'): the text of the calendar day.
strftime(now) == JStr(Decimal(now \div TicksPerDay))

\* datetime.now().isoformat(): the text of the instant.
isoformat(now) == JStr(Decimal(now))

\* generate_post_id, u the text of the uuid4 drawn.
generate_post_id(u) == JStr(SubSeq(u, 1, Min(IdLen, Len(u))))

---------------------------------------------------------------------------
(* The backing document and the backup directory *)

Absent == [exists |-> FALSE, valid |-> FALSE, posts |-> <<>>]
Unparsable == [exists |-> TRUE, valid |-> FALSE, posts |-> <<>>]
Document(posts) == [exists |-> TRUE, valid |-> TRUE, posts |-> posts]

\* Outcomes of writing a file: written; open() raises and the file is
\* untouched; open() truncates and json.dump raises part-way.
WriteOutcomes == {"ok", "open_fails", "dump_fails"}
\* Outcomes of os.remove.
RemoveOutcomes == {"ok", "fails"}

load_posts(f) ==
  IF ~f.exists THEN Ok(<<>>)
  ELSE IF f.valid THEN Ok(f.posts)
  ELSE Raise("JSONDecodeError")

\* The raised exception, and in val the document left behind.
save_posts(f, posts, outcome) ==
  CASE outcome = "ok" -> [exc |-> "", val |-> Document(posts)]
    [] outcome = "open_fails" -> [exc |-> "OSError", val |-> f]
    [] outcome = "dump_fails" -> [exc |-> "OSError", val |-> Unparsable]

\* The backup directory is the set of the ids that have a file in it: the
\* program writes and removes these files and tests their existence, and
\* never reads one.
NoBackups == {}

\* with open(post_file, 'w') as f: json.dump(new_post, f)
\* The raised exception, and in val the directory left behind.
write_backup(dir, name, outcome) ==
  CASE outcome = "ok" -> [exc |-> "", val |-> dir \cup {name}]
    [] outcome = "open_fails" -> [exc |-> "OSError", val |-> dir]
    [] outcome = "dump_fails" -> [exc |-> "OSError", val |-> dir \cup {name}]

\* if os.path.exists(post_file): os.remove(post_file)
remove_backup(dir, name, outcome) ==
  IF name \notin dir THEN [exc |-> "", val |-> dir, io |-> "none"]
  ELSE IF outcome = "ok"
    THEN [exc |-> "", val |-> dir \ {name}, io |-> "ok"]
    ELSE [exc |-> "OSError", val |-> dir, io |-> "fails"]

\* (mutation of insert0: the new post replaces the collection)
insert_replacing(posts, new_post) == <<new_post>>

\* (mutation of insert0: the new post is appended)
insert_last(posts, new_post) == Append(posts, new_post)

\* posts.insert(0, new_post)
insert0(posts, new_post) == <<new_post>> \o posts

\* (mutation of remove_by_id: only the first post with the id is removed)
remove_first_by_id(posts, post_id) ==
  LET hits == {i \in 1..Len(posts) : posts[i].id = post_id} IN
    IF hits = {} THEN posts
    ELSE LET first == CHOOSE i \in hits : \A j \in hits : i <= j
         IN SubSeq(posts, 1, first - 1) \o SubSeq(posts, first + 1, Len(posts))

\* (mutation of remove_by_id: the comparison is inverted)
remove_by_id_inverted(posts, post_id) ==
  SelectSeq(posts, LAMBDA p : p.id = post_id)

\* [p for p in posts if p['id'] != post_id]
remove_by_id(posts, post_id) ==
  SelectSeq(posts, LAMBDA p : p.id # post_id)

\* next((p for p in posts if p['id'] == post_id), None)
find_by_id(posts, post_id) ==
  LET hits == {i \in 1..Len(posts) : posts[i].id = post_id} IN
    IF hits = {} THEN [found |-> FALSE, post |-> <<>>]
    ELSE [found |-> TRUE,
          post |-> posts[CHOOSE i \in hits : \A j \in hits : i <= j]]

---------------------------------------------------------------------------
(* Responses *)

RequiredError(field) ==
  CASE field = "title" -> "Campo obrigatório: title"
    [] field = "content" -> "Campo obrigatório: content"
    [] field = "excerpt" -> "Campo obrigatório: excerpt"

\* except Exception as e: ... 'error': str(e) ... 500 (the message is
\* modelled by the exception's class)
Error500(exc) == [code |-> 500, success |-> FALSE, error |-> exc]
Error400(field) == [code |-> 400, success |-> FALSE, error |-> RequiredError(field)]
NotFound404 == [code |-> 404, success |-> FALSE, error |-> "Post não encontrado"]

NoIO == [load |-> "none", save |-> "none", backup |-> "none", remove |-> "none"]

\* What one request did: its response, the files it leaves, and what its
\* file accesses did.
Outcome(resp_, file, dir, load, save, backup, remove) ==
  [resp |-> resp_, file |-> file, dir |-> dir,
   io |-> [load |-> load, save |-> save, backup |-> backup, remove |-> remove]]

\* r, then F of its value; when r raised, the handler's except clause
\* answers 500 and the files are left as given.
Try(r, file, dir, load, save, backup, remove, F(_)) ==
  IF r.exc # ""
    THEN Outcome(Error500(r.exc), file, dir, load, save, backup, remove)
    ELSE F(r.val)

---------------------------------------------------------------------------
(* POST /api/posts *)

\* (mutation of validate: the last missing field is named)
validate_last(data) ==
  LET bad == {i \in 1..Len(required_fields) :
                \/ py_in(required_fields[i], data).exc # ""
                \/ ~py_in(required_fields[i], data).val}
      last == CHOOSE i \in bad : \A j \in bad : i >= j
  IN IF bad = {} THEN Ok("")
     ELSE Then(py_in(required_fields[last], data),
               LAMBDA present : Ok(required_fields[last]))

\* for field in required_fields: if field not in data: the first field
\* that is missing, "" when none is.
validate(data) ==
  LET bad == {i \in 1..Len(required_fields) :
                \/ py_in(required_fields[i], data).exc # ""
                \/ ~py_in(required_fields[i], data).val}
      first == CHOOSE i \in bad : \A j \in bad : i <= j
  IN IF bad = {} THEN Ok("")
     ELSE Then(py_in(required_fields[first], data),
               LAMBDA present : Ok(required_fields[first]))

\* (mutation of create_new_post: a supplied author is ignored)
create_new_post_fixed_author(data, u, now) ==
  Then(py_getitem(data, "title"), LAMBDA title :
  Then(py_getitem(data, "excerpt"), LAMBDA excerpt :
  Then(py_getitem(data, "content"), LAMBDA content :
  Then(py_get(data, "readTime", JStr(READ_TIME)), LAMBDA readTime :
  Then(py_get(data, "category", JStr(CATEGORY)), LAMBDA category :
  Then(py_get(data, "tags", JList(TAGS)), LAMBDA tags :
  Then(py_slice(excerpt, SummaryLen), LAMBDA summary :
  Then(py_get(data, "telegramSummary", summary), LAMBDA telegramSummary :
    Ok([id |-> generate_post_id(u),
        title |-> title,
        excerpt |-> excerpt,
        content |-> content,
        author |-> JStr(AUTHOR),
        date |-> strftime(now),
        readTime |-> readTime,
        category |-> category,
        tags |-> tags,
        telegramSummary |-> telegramSummary,
        created_at |-> isoformat(now)])))))))))

\* new_post = {...} of create_post; the values are evaluated in the order
\* of the dict display, the default of telegramSummary before the get.
create_new_post(data, u, now) ==
  Then(py_getitem(data, "title"), LAMBDA title :
  Then(py_getitem(data, "excerpt"), LAMBDA excerpt :
  Then(py_getitem(data, "content"), LAMBDA content :
  Then(py_get(data, "author", JStr(AUTHOR)), LAMBDA author :
  Then(py_get(data, "readTime", JStr(READ_TIME)), LAMBDA readTime :
  Then(py_get(data, "category", JStr(CATEGORY)), LAMBDA category :
  Then(py_get(data, "tags", JList(TAGS)), LAMBDA tags :
  Then(py_slice(excerpt, SummaryLen), LAMBDA summary :
  Then(py_get(data, "telegramSummary", summary), LAMBDA telegramSummary :
    Ok([id |-> generate_post_id(u),
        title |-> title,
        excerpt |-> excerpt,
        content |-> content,
        author |-> author,
        date |-> strftime(now),
        readTime |-> readTime,
        category |-> category,
        tags |-> tags,
        telegramSummary |-> telegramSummary,
        created_at |-> isoformat(now)]))))))))))

\* The response and the files left by one POST /api/posts request.
create_post(data, u, now, f, dir, save_io, backup_io) ==
  Try(validate(data), f, dir, "none", "none", "none", "none", LAMBDA missing :
    IF missing # ""
      THEN Outcome(Error400(missing), f, dir, "none", "none", "none", "none")
      ELSE
  Try(load_posts(f), f, dir, "fails", "none", "none", "none", LAMBDA posts :
  Try(create_new_post(data, u, now), f, dir, "ok", "none", "none", "none",
      LAMBDA new_post :
  Try(save_posts(f, insert0(posts, new_post), save_io),
      save_posts(f, posts, save_io).val, dir, "ok", save_io, "none", "none",
      LAMBDA saved :
  Try(write_backup(dir, new_post.id, backup_io),
      saved, write_backup(dir, new_post.id, backup_io).val,
      "ok", "ok", backup_io, "none",
      LAMBDA written :
    Outcome([code |-> 201, success |-> TRUE,
             message |-> "Post criado com sucesso!",
             post |-> new_post],
            saved, written, "ok", "ok", "ok", "none"))))))

---------------------------------------------------------------------------
(* POST /api/webhook/make *)

\* (mutation of fallback_post_data: the completion text is dropped)
fallback_without_content(content) ==
  JObj([title |-> JStr(FALLBACK_TITLE),
        excerpt |-> JStr(FALLBACK_EXCERPT),
        category |-> JStr(CATEGORY),
        readTime |-> JStr(READ_TIME)])

\* The candidate built when the completion text is not JSON.
fallback_post_data(content) ==
  JObj([title |-> JStr(FALLBACK_TITLE),
        excerpt |-> JStr(FALLBACK_EXCERPT),
        content |-> content,
        category |-> JStr(CATEGORY),
        readTime |-> JStr(READ_TIME)])

\* try: post_data = json.loads(content)
\* except json.JSONDecodeError: post_data = {...}
loads_or_fallback(content, parsed) ==
  IF parsed.exc = "JSONDecodeError" THEN Ok(fallback_post_data(content))
  ELSE parsed

\* post_data of webhook_make.
webhook_post_data(data) ==
  Then(py_in("choices", data), LAMBDA has :
    IF ~has THEN Ok(data) ELSE
  Then(py_getitem(data, "choices"), LAMBDA choices :
  Then(py_len(choices), LAMBDA n :
    IF ~(n > 0) THEN Ok(data) ELSE
  Then(py_index0(choices), LAMBDA first :
  Then(py_getitem(first, "message"), LAMBDA message :
  Then(py_getitem(message, "content"), LAMBDA content :
    loads_or_fallback(content, json_loads(content))))))))

\* (mutation of webhook_new_post: only a supplied telegramSummary is stored)
webhook_new_post_partial(post_data, u, now) ==
  Then(py_get(post_data, "title", JStr(WEBHOOK_TITLE)), LAMBDA title :
  Then(py_get(post_data, "excerpt", JStr(WEBHOOK_EXCERPT)), LAMBDA excerpt :
  Then(py_get(post_data, "content", JStr(<<>>)), LAMBDA content :
  Then(py_get(post_data, "readTime", JStr(READ_TIME)), LAMBDA readTime :
  Then(py_get(post_data, "category", JStr(CATEGORY)), LAMBDA category :
  Then(py_get(post_data, "tags", JList(TAGS)), LAMBDA tags :
  Then(py_in("telegramSummary", post_data), LAMBDA supplied :
    Ok(IF supplied
         THEN [id |-> generate_post_id(u), title |-> title, excerpt |-> excerpt,
               content |-> content, author |-> JStr(AUTHOR),
               date |-> strftime(now), readTime |-> readTime,
               category |-> category, tags |-> tags,
               telegramSummary |-> post_data.v.telegramSummary,
               created_at |-> isoformat(now)]
         ELSE [id |-> generate_post_id(u), title |-> title, excerpt |-> excerpt,
               content |-> content, author |-> JStr(AUTHOR),
               date |-> strftime(now), readTime |-> readTime,
               category |-> category, tags |-> tags,
               created_at |-> isoformat(now)]))))))))

\* new_post = {...} of webhook_make.
webhook_new_post(post_data, u, now) ==
  Then(py_get(post_data, "title", JStr(WEBHOOK_TITLE)), LAMBDA title :
  Then(py_get(post_data, "excerpt", JStr(WEBHOOK_EXCERPT)), LAMBDA excerpt :
  Then(py_get(post_data, "content", JStr(<<>>)), LAMBDA content :
  Then(py_get(post_data, "readTime", JStr(READ_TIME)), LAMBDA readTime :
  Then(py_get(post_data, "category", JStr(CATEGORY)), LAMBDA category :
  Then(py_get(post_data, "tags", JList(TAGS)), LAMBDA tags :
  Then(py_get(post_data, "excerpt", JStr(<<>>)), LAMBDA raw :
  Then(py_slice(raw, SummaryLen), LAMBDA summary :
  Then(py_get(post_data, "telegramSummary", summary), LAMBDA telegramSummary :
    Ok([id |-> generate_post_id(u),
        title |-> title,
        excerpt |-> excerpt,
        content |-> content,
        author |-> JStr(AUTHOR),
        date |-> strftime(now),
        readTime |-> readTime,
        category |-> category,
        tags |-> tags,
        telegramSummary |-> telegramSummary,
        created_at |-> isoformat(now)]))))))))))

\* The response and the files left by one POST /api/webhook/make request.
webhook_make(data, u, now, f, dir, save_io, backup_io) ==
  Try(webhook_post_data(data), f, dir, "none", "none", "none", "none",
      LAMBDA post_data :
  Try(load_posts(f), f, dir, "fails", "none", "none", "none", LAMBDA posts :
  Try(webhook_new_post(post_data, u, now), f, dir, "ok", "none", "none", "none",
      LAMBDA new_post :
  Try(save_posts(f, insert0(posts, new_post), save_io),
      save_posts(f, posts, save_io).val, dir, "ok", save_io, "none", "none",
      LAMBDA saved :
  Try(write_backup(dir, new_post.id, backup_io),
      saved, write_backup(dir, new_post.id, backup_io).val,
      "ok", "ok", backup_io, "none",
      LAMBDA written :
    Outcome([code |-> 201, success |-> TRUE,
             message |-> "Post criado via webhook!",
             post_id |-> new_post.id,
             title |-> new_post.title],
            saved, written, "ok", "ok", "ok", "none"))))))

---------------------------------------------------------------------------
(* GET /api/posts, GET /api/posts/<post_id>, DELETE /api/posts/<post_id>,  *)
(* GET /api/health                                                         *)

\* (mutation of get_posts: the listing leaves an empty document behind)
get_posts_resetting(f, dir) ==
  Try(load_posts(f), f, dir, "fails", "none", "none", "none", LAMBDA posts :
    Outcome([code |-> 200, success |-> TRUE, posts |-> posts,
             total |-> Len(posts)],
            Document(<<>>), dir, "ok", "none", "none", "none"))

get_posts(f, dir) ==
  Try(load_posts(f), f, dir, "fails", "none", "none", "none", LAMBDA posts :
    Outcome([code |-> 200, success |-> TRUE, posts |-> posts,
             total |-> Len(posts)],
            f, dir, "ok", "none", "none", "none"))

get_post(post_id, f, dir) ==
  Try(load_posts(f), f, dir, "fails", "none", "none", "none", LAMBDA posts :
    IF ~find_by_id(posts, post_id).found
      THEN Outcome(NotFound404, f, dir, "ok", "none", "none", "none")
      ELSE Outcome([code |-> 200, success |-> TRUE,
                    post |-> find_by_id(posts, post_id).post],
                   f, dir, "ok", "none", "none", "none"))

delete_post(post_id, f, dir, save_io, remove_io) ==
  Try(load_posts(f), f, dir, "fails", "none", "none", "none", LAMBDA posts :
  Try(save_posts(f, remove_by_id(posts, post_id), save_io),
      save_posts(f, posts, save_io).val, dir, "ok", save_io, "none", "none",
      LAMBDA saved :
  Try(remove_backup(dir, post_id, remove_io),
      saved, dir, "ok", "ok", "none", "fails",
      LAMBDA removed :
    Outcome([code |-> 200, success |-> TRUE,
             message |-> "Post deletado com sucesso!"],
            saved, removed, "ok", "ok", "none",
            remove_backup(dir, post_id, remove_io).io))))

health_check(now) ==
  [code |-> 200, success |-> TRUE,
   message |-> "API do Blog Synthra funcionando!",
   timestamp |-> isoformat(now)]

---------------------------------------------------------------------------
(* Requests *)

TitleA == JStr(<<"A">>)
ContentB == JStr(<<"B">>)
ExcerptC == JStr(<<"C">>)
LongExcerpt == JStr([i \in 1..LongLen |-> "e"])
SummaryS == JStr(<<"S">>)

\* Bodies of POST /api/posts.
DirectScenario == JObj([title |-> TitleA, content |-> ContentB, excerpt |-> ExcerptC])
DirectLong == JObj([title |-> TitleA, content |-> ContentB, excerpt |-> LongExcerpt])
DirectFull ==
  JObj([title |-> TitleA, content |-> ContentB, excerpt |-> ExcerptC,
        author |-> JStr(<<"Z">>), readTime |-> JStr(<<"9">>),
        category |-> JStr(<<"T">>), tags |-> JList(<<JStr(<<"g">>)>>),
        telegramSummary |-> SummaryS])
DirectEmpty == JObj(EmptyDict)
DirectTitleOnly == JObj([title |-> TitleA])
DirectNoExcerpt == JObj([title |-> TitleA, content |-> ContentB])
DirectExcerptOnly == JObj([excerpt |-> ExcerptC])
DirectNumExcerpt == JObj([title |-> TitleA, content |-> ContentB, excerpt |-> JNum(5)])

DirectInputs ==
  {DirectScenario, DirectLong, DirectFull, DirectEmpty, DirectTitleOnly,
   DirectNoExcerpt, DirectExcerptOnly, DirectNumExcerpt, JNull}

\* {"choices": [{"message": {"content": c}}]}
Completion(c) ==
  JObj([choices |-> JList(<<JObj([message |-> JObj([content |-> c])])>>)])

PlainText == JStr(<<"p", "l", "a", "i", "n", " ", "t", "e", "x", "t">>)
ObjectText ==
  JStr(<<"{", "\"", "t", "i", "t", "l", "e", "\"", ":", "\"", "X", "\"", ",",
         "\"", "e", "x", "c", "e", "r", "p", "t", "\"", ":", "\"", "Y", "\"", "}">>)
ScalarText == JStr(<<"5">>)
TruncatedText == JStr(<<"{", "\"", "t", "i", "t", "l", "e", "\"">>)

\* Bodies of POST /api/webhook/make.
WebhookEmpty == JObj(EmptyDict)
WebhookNoChoices == JObj([choices |-> JList(<<>>)])
WebhookPlain == Completion(PlainText)
WebhookObject == Completion(ObjectText)
WebhookScalar == Completion(ScalarText)
WebhookTruncated == Completion(TruncatedText)
WebhookNullContent == Completion(JNull)
WebhookNoMessage == JObj([choices |-> JList(<<JObj(EmptyDict)>>)])
WebhookFlatLong == JObj([title |-> JNum(7), excerpt |-> LongExcerpt])
WebhookFlatFull ==
  JObj([title |-> TitleA, excerpt |-> ExcerptC, content |-> ContentB,
        author |-> JStr(<<"Z">>), readTime |-> JStr(<<"9">>),
        category |-> JStr(<<"T">>), tags |-> JList(<<JStr(<<"g">>)>>),
        telegramSummary |-> SummaryS])
WebhookNumExcerpt == JObj([excerpt |-> JNum(5), telegramSummary |-> SummaryS])

WebhookInputs ==
  {WebhookEmpty, WebhookNoChoices, WebhookPlain, WebhookObject, WebhookScalar,
   WebhookTruncated, WebhookNullContent, WebhookNoMessage, WebhookFlatLong, WebhookFlatFull,
   WebhookNumExcerpt, JNull}

\* str(uuid.uuid4()): 8-4-4-4-12 hexadecimal digits.
UuidText(a, b) ==
  [i \in 1..8 |-> a] \o <<"-", "0", "0", "0", "0", "-", "4", "0", "0", "0", "-",
                          "8", "0", "0", "0", "-">> \o [i \in 1..12 |-> b]

\* Values uuid4 may return: two of them agree on the first eight characters.
UUIDS == {UuidText("a", "1"), UuidText("a", "2"), UuidText("b", "1")}

\* The <post_id> of a URL.
PostIds == {generate_post_id(u) : u \in UUIDS}

---------------------------------------------------------------------------
(* The state machine: one action per request, each handled to completion *)

\* Bodies sent in the runs that exercise the store.
StoreDirectInputs == {DirectScenario, DirectEmpty}
StoreWebhookInputs == {WebhookEmpty, WebhookNoMessage}

\* No request is handled step by step: each is handled to completion.
NoRequests == <<>>

Init ==
  /\ posts_file = Absent
  /\ backups = NoBackups
  /\ clock = 0
  /\ req = [op |-> "none"]
  /\ io = NoIO
  /\ resp = [code |-> 0, success |-> FALSE, error |-> ""]
  /\ inflight = NoRequests

\* A write that follows another is attempted only when the first succeeded.
After(first_io, outcomes) == IF first_io = "ok" THEN outcomes ELSE {"ok"}

HandleCreatePost(inputs) ==
  \E data \in inputs, u \in UUIDS, save_io \in WriteOutcomes :
    \E backup_io \in After(save_io, WriteOutcomes) :
      /\ Len(posts_file.posts) < MaxPosts
      /\ LET out == create_post(data, u, clock, posts_file, backups,
                                save_io, backup_io)
         IN /\ posts_file' = out.file
            /\ backups' = out.dir
            /\ io' = out.io
            /\ resp' = out.resp
      /\ req' = [op |-> "create_post", data |-> data]
      /\ UNCHANGED <<clock, inflight>>

HandleWebhookMake(inputs) ==
  \E data \in inputs, u \in UUIDS, save_io \in WriteOutcomes :
    \E backup_io \in After(save_io, WriteOutcomes) :
      /\ Len(posts_file.posts) < MaxPosts
      /\ LET out == webhook_make(data, u, clock, posts_file, backups,
                                 save_io, backup_io)
         IN /\ posts_file' = out.file
            /\ backups' = out.dir
            /\ io' = out.io
            /\ resp' = out.resp
      /\ req' = [op |-> "webhook_make", data |-> data]
      /\ UNCHANGED <<clock, inflight>>

HandleGetPosts ==
  /\ LET out == get_posts(posts_file, backups)
     IN /\ posts_file' = out.file
        /\ backups' = out.dir
        /\ io' = out.io
        /\ resp' = out.resp
  /\ req' = [op |-> "get_posts"]
  /\ UNCHANGED <<clock, inflight>>

HandleGetPost ==
  \E post_id \in PostIds :
    /\ LET out == get_post(post_id, posts_file, backups)
       IN /\ posts_file' = out.file
          /\ backups' = out.dir
          /\ io' = out.io
          /\ resp' = out.resp
    /\ req' = [op |-> "get_post", post_id |-> post_id]
    /\ UNCHANGED <<clock, inflight>>

HandleDeletePost ==
  \E post_id \in PostIds, save_io \in WriteOutcomes :
    \E remove_io \in After(save_io, RemoveOutcomes) :
      /\ LET out == delete_post(post_id, posts_file, backups, save_io, remove_io)
         IN /\ posts_file' = out.file
            /\ backups' = out.dir
            /\ io' = out.io
            /\ resp' = out.resp
      /\ req' = [op |-> "delete_post", post_id |-> post_id]
      /\ UNCHANGED <<clock, inflight>>

HandleHealthCheck ==
  /\ resp' = health_check(clock)
  /\ io' = NoIO
  /\ req' = [op |-> "health_check"]
  /\ UNCHANGED <<posts_file, backups, clock, inflight>>

\* Time passes between requests.
Tick ==
  /\ clock < MaxClock
  /\ clock' = clock + 1
  /\ UNCHANGED <<posts_file, backups, req, io, resp, inflight>>

Next ==
  \/ HandleCreatePost(StoreDirectInputs)
  \/ HandleWebhookMake(StoreWebhookInputs)
  \/ HandleGetPosts
  \/ HandleGetPost
  \/ HandleDeletePost
  \/ HandleHealthCheck
  \/ Tick

Spec == Init /\ [][Next]_vars

---------------------------------------------------------------------------
(* One request, with any of the bodies, against a store the program can   *)
(* have left: no document, an empty one, one post, an unparsable one.     *)

SamplePost == webhook_new_post(WebhookEmpty, UuidText("b", "1"), 0).val

SampleStores ==
  {[file |-> Absent, dir |-> {}],
   [file |-> Document(<<>>), dir |-> {}],
   [file |-> Document(<<SamplePost>>), dir |-> {SamplePost.id}],
   [file |-> Unparsable, dir |-> {}]}

InitRequest ==
  /\ \E store \in SampleStores :
       posts_file = store.file /\ backups = store.dir
  /\ clock \in 0..MaxClock
  /\ req = [op |-> "none"]
  /\ io = NoIO
  /\ resp = [code |-> 0, success |-> FALSE, error |-> ""]
  /\ inflight = NoRequests

FirstCreatePost == req.op = "none" /\ HandleCreatePost(DirectInputs)
FirstWebhookMake == req.op = "none" /\ HandleWebhookMake(WebhookInputs)

NextRequest == FirstCreatePost \/ FirstWebhookMake

SpecRequest == InitRequest /\ [][NextRequest]_vars

---------------------------------------------------------------------------
(* Two creation requests handled at the same time (the server dispatches  *)
(* each request to a thread of its own): a request loads the collection   *)
(* and builds its post, then inserts and saves, then writes the backup    *)
(* and answers; the steps of the two requests interleave in any order.    *)

Requests == {1, 2}

\* The request, and the body, each thread is given.
RaceInputs ==
  {[op |-> "create_post", data |-> DirectScenario],
   [op |-> "webhook_make", data |-> WebhookEmpty]}

\* new_post of the handler of op.
new_post_of(op, data, u, now) ==
  IF op = "create_post"
    THEN create_new_post(data, u, now)
    ELSE Then(webhook_post_data(data), LAMBDA post_data :
           webhook_new_post(post_data, u, now))

\* The response of the handler of op for new_post.
created_response(op, new_post) ==
  IF op = "create_post"
    THEN [code |-> 201, success |-> TRUE,
          message |-> "Post criado com sucesso!", post |-> new_post]
    ELSE [code |-> 201, success |-> TRUE,
          message |-> "Post criado via webhook!",
          post_id |-> new_post.id, title |-> new_post.title]

Idle ==
  [pc |-> "idle", op |-> "none", posts |-> <<>>, new_post |-> <<>>,
   overlapped |-> FALSE, resp |-> [code |-> 0, success |-> FALSE, error |-> ""]]

InitRace ==
  /\ posts_file \in {Absent, Document(<<>>)}
  /\ backups = NoBackups
  /\ clock \in 0..MaxClock
  /\ req = [op |-> "none"]
  /\ io = NoIO
  /\ resp = [code |-> 0, success |-> FALSE, error |-> ""]
  /\ inflight = [i \in Requests |-> Idle]

\* The request ends with the answer of the handler's except clause.
Failed(i, exc) ==
  [inflight EXCEPT ![i].pc = "done", ![i].resp = Error500(exc)]

\* posts = load_posts(); new_post = {...}.  overlapped records that another
\* request had loaded the collection and not yet saved it.
RaceLoad(i) ==
  /\ inflight[i].pc = "idle"
  /\ \E input \in RaceInputs, u \in UUIDS :
       LET posts == load_posts(posts_file)
           new_post == new_post_of(input.op, input.data, u, clock)
       IN inflight' =
            IF posts.exc # "" THEN Failed(i, posts.exc)
            ELSE IF new_post.exc # "" THEN Failed(i, new_post.exc)
            ELSE [inflight EXCEPT
                    ![i].pc = "save",
                    ![i].op = input.op,
                    ![i].posts = posts.val,
                    ![i].new_post = new_post.val,
                    ![i].overlapped =
                      \E j \in Requests \ {i} : inflight[j].pc = "save"]
  /\ UNCHANGED <<posts_file, backups, clock, req, io, resp>>

\* posts.insert(0, new_post); save_posts(posts)
RaceSave(i) ==
  /\ inflight[i].pc = "save"
  /\ \E save_io \in WriteOutcomes :
       LET saved == save_posts(posts_file,
                               insert0(inflight[i].posts, inflight[i].new_post),
                               save_io)
       IN /\ posts_file' = saved.val
          /\ inflight' =
               IF saved.exc # "" THEN Failed(i, saved.exc)
               ELSE [inflight EXCEPT ![i].pc = "backup"]
  /\ UNCHANGED <<backups, clock, req, io, resp>>

\* The backup file is written and the request answered.
RaceBackup(i) ==
  /\ inflight[i].pc = "backup"
  /\ \E backup_io \in WriteOutcomes :
       LET written == write_backup(backups, inflight[i].new_post.id, backup_io)
       IN /\ backups' = written.val
          /\ inflight' =
               IF written.exc # "" THEN Failed(i, written.exc)
               ELSE [inflight EXCEPT
                       ![i].pc = "done",
                       ![i].resp = created_response(inflight[i].op,
                                                    inflight[i].new_post)]
  /\ UNCHANGED <<posts_file, clock, req, io, resp>>

NextRace ==
  \E i \in Requests : RaceLoad(i) \/ RaceSave(i) \/ RaceBackup(i)

SpecRace == InitRace /\ [][NextRace]_vars

---------------------------------------------------------------------------
(* Properties *)

\* The posts of the stored collection (none when there is no document, or
\* none that can be parsed).
Stored == posts_file.posts

\* No file access of the last request failed.
NoFault ==
  /\ io.load # "fails"
  /\ io.save \in {"none", "ok"}
  /\ io.backup \in {"none", "ok"}
  /\ io.remove # "fails"

Created == req.op \in {"create_post", "webhook_make"} /\ resp.code = 201

\* a is b with some elements left out, the others in b's order.
RECURSIVE Embeds(_, _)
Embeds(a, b) ==
  IF a = <<>> THEN TRUE
  ELSE IF b = <<>> THEN FALSE
  ELSE IF Head(a) = Head(b) THEN Embeds(Tail(a), Tail(b))
  ELSE Embeds(a, Tail(b))

\* C1: in every reachable state no two posts of the stored collection
\* have the same id.
C1_UniqueIds ==
  \A i, j \in 1..Len(Stored) : i # j => Stored[i].id # Stored[j].id

\* C2: a successful creation, direct or by webhook, puts the new post at
\* index 0 and leaves the posts stored before behind it, in their order; a
\* successful deletion leaves the remaining posts in their order.
C2_InsertionOrder ==
  [][/\ (/\ resp'.code = 201
         /\ \/ req'.op = "create_post" /\ HandleCreatePost({req'.data})
            \/ req'.op = "webhook_make" /\ HandleWebhookMake({req'.data}))
         => /\ posts_file'.valid
            /\ Len(posts_file'.posts) = Len(Stored) + 1
            /\ Tail(posts_file'.posts) = Stored
            /\ Head(posts_file'.posts).id =
                 (IF req'.op = "create_post" THEN resp'.post.id ELSE resp'.post_id)
     /\ (req'.op = "delete_post" /\ resp'.code = 200 /\ HandleDeletePost)
         => /\ posts_file'.valid
            /\ Embeds(posts_file'.posts, Stored)]_vars

\* C2 (witness): a second creation has succeeded and its post is loaded before
\* the post of the first, which differs from it.
C2_Witness ==
  /\ req.op = "create_post"
  /\ resp.code = 201
  /\ Len(Stored) = 2
  /\ Stored[1] = resp.post
  /\ Stored[2] # resp.post

\* C7: a deletion of an id that no stored post has, whose file accesses
\* succeed, leaves the stored collection as it was and answers success.
C7_DeleteMissingIsNoOp ==
  [][(/\ req'.op = "delete_post"
      /\ NoFault'
      /\ \A i \in 1..Len(Stored) : Stored[i].id # req'.post_id
      /\ HandleDeletePost)
     => /\ load_posts(posts_file').exc = ""
        /\ load_posts(posts_file').val = Stored
        /\ resp'.success
        /\ resp'.code = 200]_vars

\* C7 (witness): a deletion answered success and the collection is full, so
\* that the request removed nothing; no stored post has the id it named.
C7_Witness ==
  /\ req.op = "delete_post"
  /\ resp.code = 200
  /\ Len(Stored) = MaxPosts
  /\ \A i \in 1..Len(Stored) : Stored[i].id # req.post_id

\* C5: a load absorbs read failures: with the document missing, or present
\* and unparsable, GET /api/posts answers success with zero posts and
\* GET /api/posts/<id> answers not found.
C5_LoadAbsorbsReadFailures ==
  (~posts_file.exists \/ ~posts_file.valid) =>
    /\ req.op = "get_posts" =>
         resp.success /\ resp.code = 200 /\ resp.total = 0 /\ resp.posts = <<>>
    /\ req.op = "get_post" => resp.code = 404

\* C10: in every reachable state every stored post has the eleven fields.
C10_AllFieldsPresent ==
  \A i \in 1..Len(Stored) : DOMAIN Stored[i] = PostFields

\* C10 (witness): the collection holds a post of each creation path.
C10_Witness ==
  /\ Len(Stored) = 2
  /\ Stored[1].title = TitleA
  /\ Stored[2].title = JStr(WEBHOOK_TITLE)

\* The first n elements of the text or list x.
FirstN(x, n) == [x EXCEPT !.v = SubSeq(@, 1, IF Len(@) < n THEN Len(@) ELSE n)]

\* The candidate fields of the last creation request: the body of a direct
\* creation, the post_data of a webhook.
Candidate ==
  IF req.op = "create_post" THEN req.data ELSE webhook_post_data(req.data).val

\* data["choices"][0]["message"]["content"] of a webhook body.
CompletionContent(data) ==
  Then(py_getitem(data, "choices"), LAMBDA choices :
  Then(py_index0(choices), LAMBDA first :
  Then(py_getitem(first, "message"), LAMBDA message :
    py_getitem(message, "content"))))

\* C3: a webhook request whose file accesses succeed answers success and
\* adds exactly one post, whatever JSON value its body is.
C3_WebhookNeverFails ==
  [][(FirstWebhookMake /\ NoFault')
     => /\ resp'.success
        /\ resp'.code = 201
        /\ Len(posts_file'.posts) = Len(Stored) + 1]_vars

\* C4: the telegramSummary of a post just stored is the candidate's when
\* the candidate supplies one, and otherwise the first 200 characters of
\* the post's own excerpt.
C4_SummaryFromResolvedExcerpt ==
  Created =>
    IF "telegramSummary" \in DOMAIN Candidate.v
      THEN Head(Stored).telegramSummary = Candidate.v.telegramSummary
      ELSE Head(Stored).telegramSummary = FirstN(Head(Stored).excerpt, 200)

\* C6: a direct creation whose body (a JSON object) lacks one of title,
\* content, excerpt is answered 400 with the error naming the first of
\* them, in that order, that is missing, and leaves the files as they
\* were; a body with all three is not answered 400.
C6_ValidationNamesFirstMissing ==
  [][(FirstCreatePost /\ req'.data.t = "obj")
     => LET has(k) == k \in DOMAIN req'.data.v
        IN /\ ~has("title")
                => resp'.error = "Campo obrigatório: title"
           /\ (has("title") /\ ~has("content"))
                => resp'.error = "Campo obrigatório: content"
           /\ (has("title") /\ has("content") /\ ~has("excerpt"))
                => resp'.error = "Campo obrigatório: excerpt"
           /\ ~(has("title") /\ has("content") /\ has("excerpt"))
                => /\ resp'.code = 400
                   /\ ~resp'.success
                   /\ posts_file' = posts_file
                   /\ backups' = backups
           /\ (has("title") /\ has("content") /\ has("excerpt"))
                => resp'.code # 400]_vars

\* C6 (witness): a body with a title and neither content nor excerpt has
\* been rejected, content being the field named.
C6_Witness ==
  /\ req.op = "create_post"
  /\ req.data = DirectTitleOnly
  /\ resp.code = 400
  /\ resp.error = "Campo obrigatório: content"

\* C8: a direct creation whose body holds title, content and excerpt as
\* strings, and whose file accesses succeed, stores a post with these three
\* values and, for author, readTime, category and tags, the value supplied
\* or else "Camila Goulart", "5 min", "IA", ["IA", "Automação", "Synthra"].
C8_DirectFieldsAndDefaults ==
  (/\ req.op = "create_post"
   /\ req.data.t = "obj"
   /\ {"title", "content", "excerpt"} \subseteq DOMAIN req.data.v
   /\ \A k \in {"title", "content", "excerpt"} : req.data.v[k].t = "str"
   /\ NoFault)
  => /\ resp.code = 201
     /\ resp.post = Head(Stored)
     /\ LET d == req.data.v
            post == Head(Stored)
            or(k, default) == IF k \in DOMAIN d THEN d[k] ELSE default
        IN /\ post.title = d.title
           /\ post.content = d.content
           /\ post.excerpt = d.excerpt
           /\ post.author = or("author", JStr(AUTHOR))
           /\ post.readTime = or("readTime", JStr(READ_TIME))
           /\ post.category = or("category", JStr(CATEGORY))
           /\ post.tags = or("tags", JList(TAGS))

\* C8 (witness): a body supplying author, readTime, category and tags has
\* been stored.
C8_Witness ==
  /\ req.op = "create_post"
  /\ req.data = DirectFull
  /\ resp.code = 201
  /\ Head(Stored).author = JStr(<<"Z">>)

\* C9: a webhook body whose choices[0].message.content is a string that is
\* not JSON, handled with no file access failing, stores a post with title
\* "Novo Artigo de IA", excerpt "Artigo gerado automaticamente pela IA.",
\* category "IA", readTime "5 min" and that string as its content.
C9_FallbackKeepsRawText ==
  (/\ req.op = "webhook_make"
   /\ CompletionContent(req.data).exc = ""
   /\ CompletionContent(req.data).val.t = "str"
   /\ json_loads(CompletionContent(req.data).val).exc = "JSONDecodeError"
   /\ NoFault)
  => /\ resp.code = 201
     /\ Head(Stored).title = JStr(FALLBACK_TITLE)
     /\ Head(Stored).excerpt = JStr(FALLBACK_EXCERPT)
     /\ Head(Stored).category = JStr(CATEGORY)
     /\ Head(Stored).readTime = JStr(READ_TIME)
     /\ Head(Stored).content = CompletionContent(req.data).val

\* C9 (witness): the completion text "plain text" has been stored.
C9_Witness ==
  /\ req.op = "webhook_make"
  /\ req.data = WebhookPlain
  /\ resp.code = 201
  /\ Head(Stored).content = PlainText

\* C11: a request whose file accesses succeed leaves every stored post in
\* the collection, with the values it had, unless the request is a DELETE
\* naming the post's id.
C11_PostsStayUntilDeleted ==
  [][NoFault'
     => Embeds(SelectSeq(Stored,
                         LAMBDA p : ~(/\ req'.op = "delete_post"
                                      /\ req'.post_id = p.id)),
               posts_file'.posts)]_vars

\* C11 (witness): a post stored at one time is still behind the post a
\* webhook stored at a later time.
C11_Witness ==
  /\ req.op = "webhook_make"
  /\ resp.code = 201
  /\ Len(Stored) = 2
  /\ Stored[1].id = resp.post_id
  /\ Stored[2].created_at # Stored[1].created_at

\* C12: listing the posts and getting a post by id leave the document and
\* the backups as they were, so that a load after the read returns what a
\* load before it returned.
C12_ReadsChangeNothing ==
  [][(/\ req'.op \in {"get_posts", "get_post"}
      /\ HandleGetPosts \/ HandleGetPost)
     => /\ posts_file' = posts_file
        /\ backups' = backups
        /\ load_posts(posts_file') = load_posts(posts_file)]_vars

\* C12 (witness): two posts have been listed and are still stored.
C12_Witness ==
  /\ req.op = "get_posts"
  /\ resp.code = 200
  /\ resp.total = 2
  /\ resp.posts = Stored
  /\ Len(Stored) = 2

\* C13: a request whose write of the document fails still answers success.
C13_SaveFailureSwallowed ==
  io.save \in {"open_fails", "dump_fails"}
    => resp.success /\ resp.code \in {200, 201}

\* C16: a creation, direct or by webhook, that answers failure leaves the
\* document as it was.
C16_FailedCreationStoresNothing ==
  [][(/\ req'.op \in {"create_post", "webhook_make"}
      /\ ~resp'.success
      /\ \/ HandleCreatePost({req'.data})
         \/ HandleWebhookMake({req'.data}))
     => posts_file' = posts_file]_vars

\* C17: a DELETE of id X answered success leaves no post with id X, leaves
\* the posts with another id as they were, in their order, and a get of X
\* that follows it answers not found.
C17_DeleteRemovesEveryMatch ==
  [][/\ (req'.op = "delete_post" /\ resp'.code = 200 /\ HandleDeletePost)
         => /\ posts_file'.valid
            /\ \A i \in 1..Len(posts_file'.posts) :
                 posts_file'.posts[i].id # req'.post_id
            /\ posts_file'.posts =
                 SelectSeq(Stored, LAMBDA p : p.id # req'.post_id)
     /\ (/\ req.op = "delete_post" /\ resp.code = 200
         /\ req'.op = "get_post" /\ req'.post_id = req.post_id
         /\ HandleGetPost)
         => resp'.code = 404 /\ ~resp'.success]_vars

\* C17 (witness): a DELETE answered success, the backup of the id it named
\* was removed, and a post with another id is still stored.
C17_Witness ==
  /\ req.op = "delete_post"
  /\ resp.code = 200
  /\ io.remove = "ok"
  /\ Len(Stored) = 1
  /\ Stored[1].id # req.post_id

\* C14: the post a webhook stored holds, for each of title, excerpt,
\* content, author, readTime, category, tags and telegramSummary, the
\* candidate's value when the candidate has the field, and otherwise the
\* default: "Novo Artigo", "Artigo gerado automaticamente.", "", "Camila
\* Goulart", "5 min", "IA", ["IA", "Automação", "Synthra"].  (The default
\* of telegramSummary is no fixed value: it is the subject of C4.)
C14_WebhookFieldResolution ==
  (req.op = "webhook_make" /\ resp.code = 201)
  => LET post == Head(Stored)
         or(k, default) ==
           IF k \in DOMAIN Candidate.v THEN Candidate.v[k] ELSE default
     IN /\ post.title = or("title", JStr(WEBHOOK_TITLE))
        /\ post.excerpt = or("excerpt", JStr(WEBHOOK_EXCERPT))
        /\ post.content = or("content", JStr(<<>>))
        /\ post.author = or("author", JStr(AUTHOR))
        /\ post.readTime = or("readTime", JStr(READ_TIME))
        /\ post.category = or("category", JStr(CATEGORY))
        /\ post.tags = or("tags", JList(TAGS))
        /\ "telegramSummary" \in DOMAIN Candidate.v
             => post.telegramSummary = Candidate.v.telegramSummary

\* Both requests handled at the same time were answered 201.
BothCreated ==
  \A i \in Requests :
    inflight[i].pc = "done" /\ inflight[i].resp.code = 201

\* C15: when both of two creations handled at the same time answer
\* success, the collection holds both new posts (the one saved last first)
\* if neither request loaded the collection between the other's load and
\* save; if one did, the collection holds only the post saved last.
C15_SerialKeepsBothRaceLosesOne ==
  (inflight # NoRequests /\ BothCreated)
  => LET P(i) == inflight[i].new_post
     IN /\ posts_file.valid
        /\ (\A i \in Requests : ~inflight[i].overlapped)
             => \E i, j \in Requests :
                  /\ i # j
                  /\ Len(Stored) = Len(inflight[j].posts) + 2
                  /\ Stored[1] = P(i)
                  /\ Stored[2] = P(j)
        /\ (\E i \in Requests : inflight[i].overlapped)
             => \E i \in Requests :
                  /\ Len(Stored) = Len(inflight[i].posts) + 1
                  /\ Stored[1] = P(i)

\* C15 (witness): two creations that interleaved both answered 201, both
\* backups were written, and only one of the two posts, which have
\* different ids, is stored.
C15_Witness ==
  /\ inflight # NoRequests
  /\ BothCreated
  /\ \E i \in Requests : inflight[i].overlapped
  /\ inflight[1].new_post.id # inflight[2].new_post.id
  /\ {inflight[1].new_post.id, inflight[2].new_post.id} \subseteq backups
  /\ Len(Stored) = 1

=============================================================================
